---- MODULE Spec2Model ----
(***************************************************************************)
(* Model of the customer migration ETL scripts in src/etl_scripts:         *)
(*   customer_prof_tbl.py  (profile transform, JSON document builder)      *)
(*   customer_tbl.py       (unified customer transform)                    *)
(*   full_load_tables.py, incremental_load_tables.py (staging loads)       *)
(*                                                                         *)
(* Python and pandas values are tagged records [k |-> kind, ...]; a        *)
(* DataFrame is [cols, rows, index] with cols a sequence of labels (pandas *)
(* allows duplicate labels), rows a sequence of value sequences.           *)
(***************************************************************************)
EXTENDS Integers, Sequences, FiniteSets, TLC

VARIABLES
    \* build_json called on its own (customer_prof_tbl.py:103-128)
    j_pc, j_row, j_fields, j_defaults, j_result,
    \* whether this build's numpy raises on the truth value of an empty array
    emptyTruthRaises,
    \* transform_data of customer_prof_tbl.py and of customer_tbl.py
    script,             \* which script runs
    t_pc,               \* the statement transform_data executes next
    sheets,             \* the mapping document, one entry per sheet read
    stg_customers,      \* the staging table handed to transform_data
    customer_uuids,     \* the pre-generated uuid table
    mapping,            \* what load_mapping returned
    df, df_ind, df_corp, df_all, df_final,
    \* one run of a script, from its import to the end of main()
    r_script,           \* which script runs
    r_pc,               \* the call the run makes next
    r_trace,            \* the calls made so far, in order
    r_error,            \* the first error raised: the call and where it was made
    r_log,              \* the ERROR records written to data_migration.log
    r_table,            \* the rows of the table the script writes
    r_rows,             \* the rows the run would write
    r_before,           \* the rows of that table when the run started
    \* the incremental load on its data (incremental_load_tables.py)
    i_pc,               \* the statement main() executes next
    efz_customers,      \* the source table on SQL Server
    i_staging,          \* the stg_customers table on PostgreSQL
    createdAtIsText,    \* whether efz_customers.created_at is a character column
    last_ingested_at,   \* what get_last_ingestion_time returned
    i_df,               \* what extract_incremental_data returned
    ingestion_log,      \* last_ingested_at of ingestion_incremental_log
    i_failed            \* the function whose exception main() caught

jvars == <<j_pc, j_row, j_fields, j_defaults, j_result>>
tvars == <<script, t_pc, sheets, stg_customers, customer_uuids, mapping,
           df, df_ind, df_corp, df_all, df_final>>
rvars == <<r_script, r_pc, r_trace, r_error, r_log, r_table, r_rows, r_before>>
ivars == <<i_pc, efz_customers, i_staging, createdAtIsText, last_ingested_at,
           i_df, ingestion_log, i_failed>>
vars == <<j_pc, j_row, j_fields, j_defaults, j_result, emptyTruthRaises,
          script, t_pc, sheets, stg_customers, customer_uuids, mapping,
          df, df_ind, df_corp, df_all, df_final,
          r_script, r_pc, r_trace, r_error, r_log, r_table, r_rows, r_before,
          i_pc, efz_customers, i_staging, createdAtIsText, last_ingested_at,
          i_df, ingestion_log, i_failed>>

(***************************************************************************)
(* Bounds                                                                  *)
(***************************************************************************)
MaxRowCols == 2
MaxJsonFields == 2
MaxMapRows == 2
MaxStgRows == 2
MaxUuidRows == 2
MaxIds == 2
MaxTime == 3

(***************************************************************************)
(* Generic helpers                                                         *)
(***************************************************************************)
Range(s) == {s[i] : i \in 1..Len(s)}

SeqsUpTo(S, n) == UNION {[1..m -> S] : m \in 0..n}

NoDup(s) == \A i, j \in 1..Len(s) : s[i] = s[j] => i = j

\* the sequence s with every later repeat of an element removed
RECURSIVE Dedup(_)
Dedup(s) ==
    IF s = <<>> THEN <<>>
    ELSE LET front == Dedup(SubSeq(s, 1, Len(s) - 1))
             last == s[Len(s)]
         IN IF last \in Range(front) THEN front ELSE Append(front, last)

(***************************************************************************)
(* Python / pandas values                                                  *)
(***************************************************************************)
Str(s) == [k |-> "str", s |-> s]
PyInt(n) == [k |-> "int", n |-> n]
PyFloat(n) == [k |-> "float", n |-> n]        \* n tenths
PyBool(b) == [k |-> "bool", b |-> b]
NoneV == [k |-> "None"]
NaN == [k |-> "NaN"]                        \* float('nan') / numpy.nan
NaT == [k |-> "NaT"]                        \* pandas.NaT
Timestamp(y, m, d, H) == [k |-> "Timestamp", y |-> y, m |-> m, d |-> d, H |-> H]
PyDate(y, m, d) == [k |-> "date", y |-> y, m |-> m, d |-> d]                \* datetime.date
PyDateTime(y, m, d, H) == [k |-> "datetime", y |-> y, m |-> m, d |-> d, H |-> H] \* datetime.datetime
List(items) == [k |-> "list", items |-> items]
Dict(items) == [k |-> "dict", items |-> items]
Other(repr) == [k |-> "object", repr |-> repr]  \* any other type, e.g. uuid.UUID, Decimal
Series(items) == [k |-> "Series", items |-> items] \* what a duplicated label selects

EmptyStr == Str("")

Pad2(n) == IF n < 10 THEN "0" \o ToString(n) ELSE ToString(n)

\* 'YYYY-MM-DD' of a value that carries a calendar date
IsoDate(v) == ToString(v.y) \o "-" \o Pad2(v.m) \o "-" \o Pad2(v.d)

\* pd.Timestamp.strftime('%Y-%m-%d')
Strftime(v) == IsoDate(v)

\* str(value) for the kinds that reach the str() call of build_json
PyStr(v) ==
    CASE v.k = "date" -> IsoDate(v)
      [] v.k = "datetime" -> IsoDate(v) \o " " \o Pad2(v.H) \o ":00:00"
      [] v.k = "Timestamp" -> IsoDate(v) \o " " \o Pad2(v.H) \o ":00:00"
      [] v.k = "object" -> v.repr
      [] v.k = "NaT" -> "NaT"
      [] v.k = "NaN" -> "nan"
      [] v.k = "None" -> "None"
      [] v.k = "str" -> v.s
      [] OTHER -> "<" \o v.k \o ">"

\* pd.isna on a scalar
IsNullScalar(v) == v.k \in {"None", "NaN", "NaT"}

(***************************************************************************)
(* build_json  (customer_prof_tbl.py:103-128)                              *)
(* A row is a Series: a sequence of <<label, value>> cells.                *)
(***************************************************************************)
RowLabels(row) == {row[i][1] : i \in 1..Len(row)}

CellsOf(row, field) == SelectSeq(row, LAMBDA c : c[1] = field)

\* defaults.get(field, "")
DefaultsGet(defaults, field) ==
    IF field \in DOMAIN defaults THEN defaults[field] ELSE EmptyStr

\* row.get(field, default): the value, the default when the label is absent,
\* a Series of all matches when the label is duplicated
RowGet(row, field, default) ==
    LET cells == CellsOf(row, field)
    IN CASE Len(cells) = 0 -> default
         [] Len(cells) = 1 -> cells[1][2]
         [] OTHER -> Series([i \in 1..Len(cells) |-> cells[i][2]])

\* if isinstance(value, (pd.Timestamp)): value = value.strftime('%Y-%m-%d')
FormatTimestamp(v) == IF v.k = "Timestamp" THEN Str(Strftime(v)) ELSE v

\* the outcome of `if pd.isna(value):` -- "true", "false" or "raise".
\* pd.isna of a list is an element-wise boolean array whose truth value is an
\* error for two or more elements and, for none, an error or False depending
\* on the numpy version; the truth value of a Series is always an error.
IsNaTruth(v, emptyRaises) ==
    CASE v.k = "Series" -> "raise"
      [] v.k = "list" ->
            CASE Len(v.items) = 0 -> IF emptyRaises THEN "raise" ELSE "false"
              [] Len(v.items) = 1 -> IF IsNullScalar(v.items[1]) THEN "true" ELSE "false"
              [] OTHER -> "raise"
      [] OTHER -> IF IsNullScalar(v) THEN "true" ELSE "false"

\* mutant: only None is replaced (`if value is None`)
NaToEmpty_OnlyNone(v, truth) == IF v.k = "None" THEN EmptyStr ELSE v

\* if pd.isna(value): value = ""
NaToEmpty(v, truth) == IF truth = "true" THEN EmptyStr ELSE v

\* if not isinstance(value, (str, int, float, bool, list, dict, type(None))):
\*     value = str(value)
Serializable(v) ==
    IF v.k \in {"str", "int", "float", "NaN", "bool", "list", "dict", "None"}
    THEN v
    ELSE Str(PyStr(v))

\* structured_json[field] = value on an insertion-ordered dict
DictSet(doc, field, value) ==
    IF \E i \in 1..Len(doc) : doc[i][1] = field
    THEN [i \in 1..Len(doc) |-> IF doc[i][1] = field THEN <<field, value>> ELSE doc[i]]
    ELSE Append(doc, <<field, value>>)

\* one iteration of the loop over json_fields
JsonField(row, field, defaults) ==
    FormatTimestamp(RowGet(row, field, DefaultsGet(defaults, field)))

RECURSIVE BuildLoop(_, _, _, _, _)
BuildLoop(row, fields, defaults, emptyRaises, doc) ==
    IF fields = <<>> THEN [raised |-> FALSE, doc |-> doc]
    ELSE LET value == JsonField(row, Head(fields), defaults)
             truth == IsNaTruth(value, emptyRaises)
         IN IF truth = "raise"
            THEN [raised |-> TRUE, doc |-> <<>>]
            ELSE BuildLoop(row, Tail(fields), defaults, emptyRaises,
                           DictSet(doc, Head(fields),
                                   Serializable(NaToEmpty(value, truth))))

\* mutant: only the fields the record carries are written
build_json_SkipAbsent(row, json_fields, defaults, emptyRaises) ==
    BuildLoop(row, SelectSeq(json_fields, LAMBDA f : f \in RowLabels(row)),
              defaults, emptyRaises, <<>>)

build_json(row, json_fields, defaults, emptyRaises) ==
    BuildLoop(row, json_fields, defaults, emptyRaises, <<>>)

DocKeys(doc) == [i \in 1..Len(doc) |-> doc[i][1]]

DocGet(doc, field) == doc[CHOOSE i \in 1..Len(doc) : doc[i][1] = field][2]

(***************************************************************************)
(* The mapping document  (load_mapping)                                    *)
(* A sheet is a sequence of rows [src, dst, def]: the cells `Source Field`,*)
(* `Destination Field` and `Default Value`; an empty cell is NullLabel in   *)
(* the two name columns and NaN in the value column.                       *)
(***************************************************************************)
NullLabel == "<NaN>"

\* pd.notna(k) on a name cell
NotNa(label) == label # NullLabel

\* {k: v for k, v in pairs}: a later pair overwrites an earlier one
DictFromPairs(pairs) ==
    [key \in {pairs[i][1] : i \in 1..Len(pairs)} |->
        LET last == CHOOSE i \in 1..Len(pairs) :
                        /\ pairs[i][1] = key
                        /\ \A j \in 1..Len(pairs) : pairs[j][1] = key => j <= i
        IN pairs[last][2]]

\* {k: v for k, v in zip(df["Source Field"], df["Destination Field"]) if pd.notna(k)}
FieldMapOf(sheet) ==
    LET kept == SelectSeq(sheet, LAMBDA r : NotNa(r.src))
    IN DictFromPairs([i \in 1..Len(kept) |-> <<kept[i].src, kept[i].dst>>])

\* {k: v for k, v in zip(df["Destination Field"], df["Default Value"]) if pd.notna(k)}
DefaultsOf(sheet) ==
    LET kept == SelectSeq(sheet, LAMBDA r : NotNa(r.dst))
    IN DictFromPairs([i \in 1..Len(kept) |-> <<kept[i].dst, kept[i].def>>])

\* df_json["Destination Field"].dropna().tolist()
JsonFieldsOf(column) == SelectSeq(column, NotNa)

DictValues(d) == {d[key] : key \in DOMAIN d}

\* set(field_map.values()).union(set(default_values.keys()))
RequiredColumns(field_map, default_values) ==
    DictValues(field_map) \cup DOMAIN default_values

\* list(a_set): some order of the set's elements
RECURSIVE SetToSeq(_)
SetToSeq(S) ==
    IF S = {} THEN <<>>
    ELSE LET x == CHOOSE x \in S : TRUE
         IN <<x>> \o SetToSeq(S \ {x})

(***************************************************************************)
(* DataFrames                                                              *)
(***************************************************************************)
Frame(cols, rows, index) == [cols |-> cols, rows |-> rows, index |-> index]

EmptyFrame == Frame(<<>>, <<>>, <<>>)

NRows(fr) == Len(fr.rows)

ColSet(fr) == Range(fr.cols)

RangeIndex(n) == [i \in 1..n |-> i - 1]

\* positions of a label among the columns
Positions(cols, label) == SelectSeq([i \in 1..Len(cols) |-> i], LAMBDA i : cols[i] = label)

FirstPos(cols, label) == CHOOSE i \in 1..Len(cols) : cols[i] = label /\ \A j \in 1..(i - 1) : cols[j] # label

\* the row as the Series df.apply(..., axis=1) hands to the function
RowSeries(fr, r) == [i \in 1..Len(fr.cols) |-> <<fr.cols[i], fr.rows[r][i]>>]

RECURSIVE Flatten(_)
Flatten(ss) == IF ss = <<>> THEN <<>> ELSE Head(ss) \o Flatten(Tail(ss))

\* mutant: every left row is paired with every right row, whatever the keys
MergeLeft_Cross(left, right, key) ==
    LET rk == FirstPos(right.cols, key)
        rest == SelectSeq([i \in 1..Len(right.cols) |-> i], LAMBDA i : i # rk)
        restOf(rrow) == [i \in 1..Len(rest) |-> rrow[rest[i]]]
        nans == [i \in 1..Len(rest) |-> NaN]
        joined(lrow) ==
            IF right.rows = <<>> THEN << lrow \o nans >>
            ELSE [m \in 1..Len(right.rows) |-> lrow \o restOf(right.rows[m])]
        rows == Flatten([l \in 1..Len(left.rows) |-> joined(left.rows[l])])
    IN Frame(left.cols \o [i \in 1..Len(rest) |-> right.cols[rest[i]]],
             rows, RangeIndex(Len(rows)))

\* pd.merge(left, right, on=key, how='left'): every left row, in order, once
\* per right row with an equal key (NaN keys match one another), or once with
\* NaN in the right columns when there is none; a fresh RangeIndex.
MergeLeft(left, right, key) ==
    LET lk == FirstPos(left.cols, key)
        rk == FirstPos(right.cols, key)
        rest == SelectSeq([i \in 1..Len(right.cols) |-> i], LAMBDA i : i # rk)
        restOf(rrow) == [i \in 1..Len(rest) |-> rrow[rest[i]]]
        nans == [i \in 1..Len(rest) |-> NaN]
        matches(lrow) == SelectSeq(right.rows, LAMBDA rrow : rrow[rk] = lrow[lk])
        joined(lrow) ==
            IF matches(lrow) = <<>> THEN << lrow \o nans >>
            ELSE [m \in 1..Len(matches(lrow)) |-> lrow \o restOf(matches(lrow)[m])]
        rows == Flatten([l \in 1..Len(left.rows) |-> joined(left.rows[l])])
    IN Frame(left.cols \o [i \in 1..Len(rest) |-> right.cols[rest[i]]],
             rows, RangeIndex(Len(rows)))

\* df[df[column] == value].copy(): the rows that pass, with their index labels
FilterEq(fr, column, value) ==
    LET c == FirstPos(fr.cols, column)
        keep == SelectSeq([i \in 1..NRows(fr) |-> i], LAMBDA i : fr.rows[i][c] = value)
    IN Frame(fr.cols,
             [i \in 1..Len(keep) |-> fr.rows[keep[i]]],
             [i \in 1..Len(keep) |-> fr.index[keep[i]]])

\* df.rename(columns=field_map, inplace=True)
Rename(fr, field_map) ==
    Frame([i \in 1..Len(fr.cols) |->
              IF fr.cols[i] \in DOMAIN field_map THEN field_map[fr.cols[i]] ELSE fr.cols[i]],
          fr.rows, fr.index)

\* df[column] = value for a column the frame does not have
AddColumn(fr, column, value) ==
    Frame(Append(fr.cols, column),
          [r \in 1..NRows(fr) |-> Append(fr.rows[r], value)],
          fr.index)

\* for column in all_columns:
\*     if column not in df.columns: df[column] = default_values.get(column, "")
RECURSIVE FillMissing(_, _, _)
FillMissing(fr, columns, default_values) ==
    IF columns = <<>> THEN fr
    ELSE FillMissing(
            IF Head(columns) \in ColSet(fr) THEN fr
            ELSE AddColumn(fr, Head(columns), DefaultsGet(default_values, Head(columns))),
            Tail(columns), default_values)

\* df[list(all_columns)]: for each listed label, every column bearing it
Select(fr, columns) ==
    LET pos == Flatten([i \in 1..Len(columns) |-> Positions(fr.cols, columns[i])])
    IN Frame([i \in 1..Len(pos) |-> fr.cols[pos[i]]],
             [r \in 1..NRows(fr) |-> [i \in 1..Len(pos) |-> fr.rows[r][pos[i]]]],
             fr.index)

\* pd.concat([a, b], ignore_index=True): the rows of a then those of b over the
\* union of the columns, NaN where a frame lacks a column, a fresh RangeIndex
Concat(a, b) ==
    LET cols == a.cols \o SelectSeq(b.cols, LAMBDA c : c \notin ColSet(a))
        widen(fr, row) ==
            [i \in 1..Len(cols) |->
                IF cols[i] \in ColSet(fr) THEN row[FirstPos(fr.cols, cols[i])] ELSE NaN]
        rows == [r \in 1..NRows(a) |-> widen(a, a.rows[r])]
                \o [r \in 1..NRows(b) |-> widen(b, b.rows[r])]
    IN Frame(cols, rows, RangeIndex(Len(rows)))

(***************************************************************************)
(* Inputs of the stand-alone build_json runs                               *)
(***************************************************************************)
RawDateText == "2024-03-05T00:00:00"

JsonLabels == {"customerName", "dateOfBirth"}

\* a field the record never carries: resolved through defaults
JsonFieldNames == JsonLabels \cup {"status"}

JsonValues ==
    { Str("Acme"), Str(RawDateText), PyInt(7), PyFloat(15), PyBool(TRUE),
      NoneV, NaN, NaT,
      Timestamp(2024, 3, 5, 0), Timestamp(2024, 12, 31, 13),
      PyDate(2024, 3, 5), PyDateTime(2024, 3, 5, 0),
      List(<<>>), List(<<NoneV>>), List(<<PyInt(1)>>), List(<<PyInt(1), PyInt(2)>>),
      Dict(<<>>), Other("3f2c-uuid") }

JsonCells == JsonLabels \X JsonValues

JsonDefaults ==
    { <<>>,
      [f \in {"status"} |-> Str("ACTIVE")],
      [f \in {"status", "dateOfBirth"} |-> NaN],
      [f \in {"status", "dateOfBirth"} |-> Timestamp(2024, 3, 5, 0)],
      [f \in {"customerName"} |-> Str("Unknown")] }

\* the record and field list of the concrete scenario of the mapping
SampleRows ==
    { <<>>,
      << <<"dateOfBirth", Timestamp(2024, 3, 5, 0)>>, <<"customerName", Str("Acme")>> >> }

SampleFieldList == <<"customerName", "dateOfBirth">>

JInit ==
    /\ j_pc = "call"
    /\ j_result = [raised |-> FALSE, doc |-> <<>>]
    /\ j_defaults \in JsonDefaults
    /\ \/ /\ j_row \in SeqsUpTo(JsonCells, MaxRowCols)
          /\ j_fields = SampleFieldList
       \/ /\ j_row \in SampleRows
          /\ j_fields \in SeqsUpTo(JsonFieldNames, MaxJsonFields)

\* build_json is not being called on its own
JIdle ==
    /\ j_pc = "idle"
    /\ j_result = [raised |-> FALSE, doc |-> <<>>]
    /\ j_defaults = <<>>
    /\ j_row = <<>>
    /\ j_fields = <<>>

\* build_json(row, json_fields, defaults) returns a document
BuildJsonReturn ==
    /\ j_pc = "call"
    /\ LET r == build_json(j_row, j_fields, j_defaults, emptyTruthRaises)
       IN /\ ~r.raised
          /\ j_result' = r
    /\ j_pc' = "returned"
    /\ UNCHANGED <<j_row, j_fields, j_defaults, emptyTruthRaises>>
    /\ UNCHANGED <<tvars, rvars, ivars>>

\* build_json(row, json_fields, defaults) raises ValueError
BuildJsonRaise ==
    /\ j_pc = "call"
    /\ LET r == build_json(j_row, j_fields, j_defaults, emptyTruthRaises)
       IN /\ r.raised
          /\ j_result' = r
    /\ j_pc' = "raised"
    /\ UNCHANGED <<j_row, j_fields, j_defaults, emptyTruthRaises>>
    /\ UNCHANGED <<tvars, rvars, ivars>>

JNext == BuildJsonReturn \/ BuildJsonRaise

(***************************************************************************)
(* Type normalisation at the end of transform_data                         *)
(***************************************************************************)
\* the texts pd.to_datetime parses, with the instant each denotes
ParsedText(s) ==
    CASE s = "2024-03-05T00:00:00" -> Timestamp(2024, 3, 5, 0)
      [] s = "2024-12-31T13:00:00" -> Timestamp(2024, 12, 31, 13)
      [] OTHER -> NaT

\* pd.to_datetime(value, errors='coerce')
ToDatetime(v) ==
    CASE v.k = "Timestamp" -> v
      [] v.k = "datetime" -> Timestamp(v.y, v.m, v.d, v.H)
      [] v.k = "date" -> Timestamp(v.y, v.m, v.d, 0)
      [] v.k = "str" -> ParsedText(v.s)
      [] OTHER -> NaT

\* Series.astype(str) on one value
AsTypeStr(v) ==
    CASE v.k = "str" -> v
      [] v.k = "int" -> Str(ToString(v.n))
      [] OTHER -> Str(PyStr(v))

\* the frame with the cells of one column replaced
WithColumn(frame, column, cells) ==
    Frame(frame.cols,
          [r \in 1..NRows(frame) |->
              [i \in 1..Len(frame.cols) |->
                  IF frame.cols[i] = column THEN cells[r] ELSE frame.rows[r][i]]],
          frame.index)

\* if col in df.columns: df[col] = pd.to_datetime(df[col], errors='coerce')
ToDatetimeColumn(frame, column) ==
    IF column \notin ColSet(frame) THEN frame
    ELSE WithColumn(frame, column,
                    [r \in 1..NRows(frame) |->
                        ToDatetime(frame.rows[r][FirstPos(frame.cols, column)])])

\* if col in df.columns: df[col] = df[col].astype(str)
AsTypeStrColumn(frame, column) ==
    IF column \notin ColSet(frame) THEN frame
    ELSE WithColumn(frame, column,
                    [r \in 1..NRows(frame) |->
                        AsTypeStr(frame.rows[r][FirstPos(frame.cols, column)])])

\* for col in ['createdAt', 'updatedAt']: ...
DatetimeColumns(frame) ==
    ToDatetimeColumn(ToDatetimeColumn(frame, "createdAt"), "updatedAt")

\* for col in ["customerNumber", "bvn"]: ...
IntToStrColumns(frame) ==
    AsTypeStrColumn(AsTypeStrColumn(frame, "customerNumber"), "bvn")

\* df.reset_index(drop=True, inplace=True)
ResetIndex(frame) == Frame(frame.cols, frame.rows, RangeIndex(NRows(frame)))

(***************************************************************************)
(* transform_data, statement by statement                                  *)
(***************************************************************************)
Profile == "customer_prof_tbl"
Unified == "customer_tbl"

NoMapping ==
    [ind_map |-> <<>>, corp_map |-> <<>>, ind_defaults |-> <<>>, corp_defaults |-> <<>>,
     json_ind_fields |-> <<>>, json_corp_fields |-> <<>>,
     field_map |-> <<>>, default_values |-> <<>>]

\* load_mapping() of customer_prof_tbl.py
LoadProfileMapping(doc) ==
    [NoMapping EXCEPT
        !.ind_map = FieldMapOf(doc.ind),
        !.corp_map = FieldMapOf(doc.corp),
        !.ind_defaults = DefaultsOf(doc.ind),
        !.corp_defaults = DefaultsOf(doc.corp),
        !.json_ind_fields = JsonFieldsOf(doc.json_ind),
        !.json_corp_fields = JsonFieldsOf(doc.json_corp)]

\* load_mapping() of customer_tbl.py
LoadUnifiedMapping(doc) ==
    [NoMapping EXCEPT
        !.field_map = FieldMapOf(doc.all),
        !.default_values = DefaultsOf(doc.all)]

\* mutant: the projection keeps the columns the mapping does not name
ProjectColumns_KeepAll(frame, field_map, default_values) == frame

\* df = df[list(all_columns)]
ProjectColumns(frame, field_map, default_values) ==
    Select(frame, SetToSeq(RequiredColumns(field_map, default_values)))

\* the loop that adds every required column the frame lacks
FillDefaults(frame, field_map, default_values) ==
    FillMissing(frame, SetToSeq(RequiredColumns(field_map, default_values)), default_values)

\* df.apply(lambda x: build_json(x, json_fields, defaults), axis=1): one outcome
\* of build_json per row
JsonOutcomes(frame, json_fields, defaults, emptyRaises) ==
    [r \in 1..NRows(frame) |->
        build_json(RowSeries(frame, r), json_fields, defaults, emptyRaises)]

ApplyRaises(frame, json_fields, defaults, emptyRaises) ==
    /\ frame.cols # <<>>
    /\ \E r \in 1..NRows(frame) :
          JsonOutcomes(frame, json_fields, defaults, emptyRaises)[r].raised

\* df["customerProfileData"] = df.apply(...).  With no row the new column is
\* empty; with rows but no column apply does not call the function per row and
\* yields NaN for every row.
WithProfileData(frame, json_fields, defaults, emptyRaises) ==
    Frame(Append(frame.cols, "customerProfileData"),
          [r \in 1..NRows(frame) |->
              Append(frame.rows[r],
                     IF frame.cols = <<>> THEN NaN
                     ELSE Dict(JsonOutcomes(frame, json_fields, defaults, emptyRaises)[r].doc))],
          frame.index)

T_LoadMapping ==
    /\ t_pc = "load_mapping"
    /\ IF script = Profile
       THEN /\ mapping' = LoadProfileMapping(sheets)
            /\ t_pc' = "merge"
       ELSE /\ mapping' = LoadUnifiedMapping(sheets)
            /\ t_pc' = "rename"
    /\ UNCHANGED <<script, sheets, stg_customers, customer_uuids,
                   df, df_ind, df_corp, df_all, df_final>>
    /\ UNCHANGED <<jvars, rvars, ivars, emptyTruthRaises>>

\* pd.merge(stg_customers_df, customer_uuids_df, on='customer_code', how='left')
T_Merge ==
    /\ t_pc = "merge"
    /\ IF script = Profile
       THEN /\ df' = MergeLeft(stg_customers, customer_uuids, "customer_code")
            /\ t_pc' = "split"
            /\ UNCHANGED df_all
       ELSE /\ df_all' = MergeLeft(stg_customers, customer_uuids, "customer_code")
            /\ t_pc' = "load_mapping"
            /\ UNCHANGED df
    /\ UNCHANGED <<script, sheets, stg_customers, customer_uuids, mapping,
                   df_ind, df_corp, df_final>>
    /\ UNCHANGED <<jvars, rvars, ivars, emptyTruthRaises>>

\* df_ind = df[df["customer_type"] == "Individual"].copy()
SplitIndividual(frame) == FilterEq(frame, "customer_type", Str("Individual"))

\* mutant: every row that is not Individual is taken as corporate
SplitCorporate_NotIndividual(frame) ==
    LET c == FirstPos(frame.cols, "customer_type")
        keep == SelectSeq([i \in 1..NRows(frame) |-> i],
                          LAMBDA i : frame.rows[i][c] # Str("Individual"))
    IN Frame(frame.cols,
             [i \in 1..Len(keep) |-> frame.rows[keep[i]]],
             [i \in 1..Len(keep) |-> frame.index[keep[i]]])

\* df_corp = df[df["customer_type"] == "SME"].copy()
SplitCorporate(frame) == FilterEq(frame, "customer_type", Str("SME"))

T_Split ==
    /\ t_pc = "split"
    /\ df_ind' = SplitIndividual(df)
    /\ df_corp' = SplitCorporate(df)
    /\ t_pc' = "rename"
    /\ UNCHANGED <<script, sheets, stg_customers, customer_uuids, mapping,
                   df, df_all, df_final>>
    /\ UNCHANGED <<jvars, rvars, ivars, emptyTruthRaises>>

T_Rename ==
    /\ t_pc = "rename"
    /\ IF script = Profile
       THEN /\ df_ind' = Rename(df_ind, mapping.ind_map)
            /\ df_corp' = Rename(df_corp, mapping.corp_map)
            /\ UNCHANGED df_all
       ELSE /\ df_all' = Rename(df_all, mapping.field_map)
            /\ UNCHANGED <<df_ind, df_corp>>
    /\ t_pc' = "fill"
    /\ UNCHANGED <<script, sheets, stg_customers, customer_uuids, mapping, df, df_final>>
    /\ UNCHANGED <<jvars, rvars, ivars, emptyTruthRaises>>

T_Fill ==
    /\ t_pc = "fill"
    /\ IF script = Profile
       THEN /\ df_ind' = FillDefaults(df_ind, mapping.ind_map, mapping.ind_defaults)
            /\ df_corp' = FillDefaults(df_corp, mapping.corp_map, mapping.corp_defaults)
            /\ UNCHANGED df_all
       ELSE /\ df_all' = FillDefaults(df_all, mapping.field_map, mapping.default_values)
            /\ UNCHANGED <<df_ind, df_corp>>
    /\ t_pc' = "project"
    /\ UNCHANGED <<script, sheets, stg_customers, customer_uuids, mapping, df, df_final>>
    /\ UNCHANGED <<jvars, rvars, ivars, emptyTruthRaises>>

T_Project ==
    /\ t_pc = "project"
    /\ IF script = Profile
       THEN /\ df_ind' = ProjectColumns(df_ind, mapping.ind_map, mapping.ind_defaults)
            /\ df_corp' = ProjectColumns(df_corp, mapping.corp_map, mapping.corp_defaults)
            /\ t_pc' = "json"
            /\ UNCHANGED df_all
       ELSE /\ df_all' = ProjectColumns(df_all, mapping.field_map, mapping.default_values)
            /\ t_pc' = "normalize"
            /\ UNCHANGED <<df_ind, df_corp>>
    /\ UNCHANGED <<script, sheets, stg_customers, customer_uuids, mapping, df, df_final>>
    /\ UNCHANGED <<jvars, rvars, ivars, emptyTruthRaises>>

\* both JSON columns are built
T_Json ==
    /\ t_pc = "json"
    /\ ~ApplyRaises(df_ind, mapping.json_ind_fields, mapping.ind_defaults, emptyTruthRaises)
    /\ ~ApplyRaises(df_corp, mapping.json_corp_fields, mapping.corp_defaults, emptyTruthRaises)
    /\ df_ind' = WithProfileData(df_ind, mapping.json_ind_fields, mapping.ind_defaults,
                                 emptyTruthRaises)
    /\ df_corp' = WithProfileData(df_corp, mapping.json_corp_fields, mapping.corp_defaults,
                                  emptyTruthRaises)
    /\ t_pc' = "concat"
    /\ UNCHANGED <<script, sheets, stg_customers, customer_uuids, mapping,
                   df, df_all, df_final>>
    /\ UNCHANGED <<jvars, rvars, ivars, emptyTruthRaises>>

\* build_json raises for some row: the exception leaves transform_data
T_JsonRaise ==
    /\ t_pc = "json"
    /\ \/ ApplyRaises(df_ind, mapping.json_ind_fields, mapping.ind_defaults, emptyTruthRaises)
       \/ ApplyRaises(df_corp, mapping.json_corp_fields, mapping.corp_defaults,
                      emptyTruthRaises)
    /\ t_pc' = "raised"
    /\ UNCHANGED <<script, sheets, stg_customers, customer_uuids, mapping,
                   df, df_ind, df_corp, df_all, df_final>>
    /\ UNCHANGED <<jvars, rvars, ivars, emptyTruthRaises>>

\* mutant: the corporate rows are put first
Consolidate_CorporateFirst(ind, corp) == Concat(corp, ind)

\* df_final = pd.concat([df_ind, df_corp], ignore_index=True)
Consolidate(ind, corp) == Concat(ind, corp)

T_Concat ==
    /\ t_pc = "concat"
    /\ df_final' = Consolidate(df_ind, df_corp)
    /\ t_pc' = "normalize"
    /\ UNCHANGED <<script, sheets, stg_customers, customer_uuids, mapping,
                   df, df_ind, df_corp, df_all>>
    /\ UNCHANGED <<jvars, rvars, ivars, emptyTruthRaises>>

\* the datetime and text conversions, reset_index, return
T_Normalize ==
    /\ t_pc = "normalize"
    /\ IF script = Profile
       THEN /\ df_final' = ResetIndex(IntToStrColumns(DatetimeColumns(df_final)))
            /\ UNCHANGED df_all
       ELSE /\ df_all' = ResetIndex(DatetimeColumns(df_all))
            /\ UNCHANGED df_final
    /\ t_pc' = "done"
    /\ UNCHANGED <<script, sheets, stg_customers, customer_uuids, mapping,
                   df, df_ind, df_corp>>
    /\ UNCHANGED <<jvars, rvars, ivars, emptyTruthRaises>>

TNext ==
    \/ T_LoadMapping
    \/ T_Merge
    \/ T_Split
    \/ T_Rename
    \/ T_Fill
    \/ T_Project
    \/ T_Json
    \/ T_JsonRaise
    \/ T_Concat
    \/ T_Normalize

(***************************************************************************)
(* Inputs of transform_data                                                *)
(***************************************************************************)
MapRow(src, dst, def) == [src |-> src, dst |-> dst, def |-> def]

MapRowSet ==
    { MapRow("cust_name", "customerName", Str("Unknown")),
      MapRow(NullLabel, "status", Str("ACTIVE")),
      MapRow("dob", "dateOfBirth", NaN),
      MapRow("customerId", "customerId", NaN),
      MapRow(NullLabel, NullLabel, Str("n/a")),
      MapRow(NullLabel, "branchCode", NaN),
      MapRow("created_at", "createdAt", NaN),
      MapRow("customer_code", "customerNumber", NaN),
      MapRow("phones", "phoneNumbers", NaN) }

SampleIndSheet ==
    << MapRow("cust_name", "customerName", Str("Unknown")),
       MapRow(NullLabel, "status", Str("ACTIVE")),
       MapRow("customer_code", "customerNumber", NaN) >>

SampleCorpSheet ==
    << MapRow("cust_name", "customerName", Str("Unknown")),
       MapRow("created_at", "createdAt", NaN),
       MapRow("customer_code", "customerNumber", NaN) >>

JsonSheetSet ==
    { <<"customerName", NullLabel, "status">>,
      <<"phoneNumbers", "customerName">> }

SampleJsonSheet == <<"dateOfBirth", "customerName">>

Document(ind, corp, json_ind, json_corp, all) ==
    [ind |-> ind, corp |-> corp, json_ind |-> json_ind, json_corp |-> json_corp, all |-> all]

StgColumns == <<"customer_code", "customer_type", "cust_name", "dob", "created_at">>

UuidColumns == <<"customer_code", "customerId">>

CustomerTypes == {Str("Individual"), Str("SME"), Str("Corporate"), NaN}

CustomerCodes == {Str("C1"), Str("C2")}

\* a staging row of the given code and type
StgRow(code, type) ==
    << code, type,
       IF code = Str("C1") THEN Str("Acme") ELSE Str("Globex"),
       IF code = Str("C1") THEN Timestamp(2024, 3, 5, 0) ELSE NaT,
       IF type = Str("SME") THEN Str("2024-12-31T13:00:00") ELSE Str("not a date") >>

StgRowSet == {StgRow(c, t) : c \in CustomerCodes, t \in CustomerTypes}

UuidRowSet == { <<Str("C1"), Str("uuid-1")>>, <<Str("C2"), Str("uuid-2")>>,
                <<Str("C1"), Str("uuid-3")>> }

Table(cols, rows) == Frame(cols, rows, RangeIndex(Len(rows)))

SampleUuids == Table(UuidColumns, << <<Str("C1"), Str("uuid-1")>>, <<Str("C2"), Str("uuid-2")>> >>)

\* staging tables for the runs that vary the mapping document: a full one, one
\* with an array column and without cust_name, dob and created_at, an empty one
SampleStagings ==
    { Table(StgColumns, << StgRow(Str("C1"), Str("Individual")), StgRow(Str("C2"), Str("SME")) >>),
      Table(<<"customer_code", "customer_type", "phones">>,
            << <<Str("C1"), Str("Individual"), List(<<Str("0801"), Str("0802")>>)>>,
               <<Str("C2"), Str("SME"), List(<<>>)>> >>),
      Table(StgColumns, <<>>) }

TIdleFrames ==
    /\ df = EmptyFrame
    /\ df_ind = EmptyFrame
    /\ df_corp = EmptyFrame
    /\ df_all = EmptyFrame
    /\ df_final = EmptyFrame
    /\ mapping = NoMapping

TInit ==
    /\ TIdleFrames
    /\ script \in {Profile, Unified}
    /\ t_pc = IF script = Profile THEN "load_mapping" ELSE "merge"
    /\ \/ \* the mapping document varies
          /\ stg_customers \in SampleStagings
          /\ customer_uuids = SampleUuids
          /\ \/ /\ script = Profile
                /\ \E sheet \in SeqsUpTo(MapRowSet, MaxMapRows), js \in JsonSheetSet :
                      \/ sheets = Document(sheet, SampleCorpSheet, js, SampleJsonSheet, <<>>)
                      \/ sheets = Document(SampleIndSheet, sheet, SampleJsonSheet, js, <<>>)
             \/ /\ script = Unified
                /\ \E sheet \in SeqsUpTo(MapRowSet, MaxMapRows) :
                      sheets = Document(<<>>, <<>>, <<>>, <<>>, sheet)
       \/ \* the tables vary
          /\ stg_customers \in {Table(StgColumns, rows) : rows \in SeqsUpTo(StgRowSet, MaxStgRows)}
          /\ customer_uuids \in {Table(UuidColumns, rows) : rows \in SeqsUpTo(UuidRowSet, MaxUuidRows)}
          /\ \/ /\ script = Profile
                /\ sheets = Document(SampleIndSheet, SampleCorpSheet,
                                     <<"customerName", NullLabel, "status">>,
                                     SampleJsonSheet, <<>>)
             \/ /\ script = Unified
                /\ sheets = Document(<<>>, <<>>, <<>>, <<>>, SampleCorpSheet)

\* transform_data is not running
TIdle ==
    /\ TIdleFrames
    /\ script = "none"
    /\ t_pc = "idle"
    /\ sheets = Document(<<>>, <<>>, <<>>, <<>>, <<>>)
    /\ stg_customers = EmptyFrame
    /\ customer_uuids = EmptyFrame

(***************************************************************************)
(* One run of a script: the calls at import, then main()                   *)
(***************************************************************************)
FullLoad == "full_load_tables"
Incremental == "incremental_load_tables"

Scripts == {FullLoad, Incremental, Unified, Profile}

NoError == [call |-> "none", at |-> "none"]

OldRowSet == {"old1", "old2"}
NewRowSet == {"new1", "new2"}

\* the call a script makes first
FirstCall(s) ==
    CASE s = Profile -> "import_extract"
      [] s = Unified -> "import_extract"
      [] s = FullLoad -> "import_extract"
      [] s = Incremental -> "main_last_ingestion"

\* where the call is made: at import (module level) or inside main()'s try
At(pc) == IF pc \in {"import_extract", "import_load_mapping", "import_transform"}
          THEN "import" ELSE "main"

\* the call that follows a call that returned
NextCall(s, pc) ==
    CASE pc = "import_extract" ->
            (CASE s = Profile -> "import_load_mapping"
               [] s = Unified -> "import_transform"
               [] OTHER -> "main_extract")
      [] pc = "import_load_mapping" -> "main_extract"
      [] pc = "import_transform" -> "main_extract"
      [] pc = "main_last_ingestion" -> "main_extract"
      [] pc = "main_extract" ->
            IF s \in {FullLoad, Incremental} THEN "main_load_to_staging" ELSE "main_transform"
      [] pc = "main_transform" -> "load_columns"
      [] pc = "load_columns" -> "load_truncate"
      [] pc = "load_truncate" -> "load_insert"
      [] pc = "load_insert" -> "exited"
      [] pc = "main_load_to_staging" ->
            IF s = Incremental THEN "main_update_ingestion" ELSE "exited"
      [] pc = "main_update_ingestion" -> "exited"

\* the functions of the staging scripts catch, log and re-raise; load_data does
\* too; extract_staging_data, load_mapping and transform_data have no handler
LogsItself(s, pc) ==
    \/ pc \in {"load_columns", "load_truncate", "load_insert"}
    \/ s \in {FullLoad, Incremental}

\* the function a call enters
Callee(s, pc) ==
    CASE pc \in {"import_extract", "main_extract"} ->
            (CASE s = FullLoad -> "extract_data"
               [] s = Incremental -> "extract_incremental_data"
               [] OTHER -> "extract_staging_data")
      [] pc = "import_load_mapping" -> "load_mapping"
      [] pc \in {"import_transform", "main_transform"} -> "transform_data"
      [] pc \in {"load_columns", "load_truncate", "load_insert"} -> "load_data"
      [] pc = "main_last_ingestion" -> "get_last_ingestion_time"
      [] pc = "main_load_to_staging" -> "load_to_staging"
      [] pc = "main_update_ingestion" -> "update_last_ingestion_time"

\* what can go wrong inside the call: transform_data of customer_tbl.py loads
\* the mapping itself
FailureKinds(s, pc) ==
    CASE pc \in {"import_extract", "main_extract"} -> {"extract"}
      [] pc = "main_last_ingestion" -> {"last_ingestion"}
      [] pc = "main_update_ingestion" -> {"update_ingestion"}
      [] pc = "import_load_mapping" -> {"load_mapping"}
      [] pc \in {"import_transform", "main_transform"} ->
            IF s = Unified THEN {"load_mapping", "transform"} ELSE {"transform"}
      [] OTHER -> {"load"}

\* a load_data that truncates and inserts in one transaction
TableAfter_OneTransaction(s, pc, table, rows) ==
    CASE pc = "load_insert" -> rows
      [] pc = "main_load_to_staging" -> IF s = FullLoad THEN rows ELSE table \cup rows
      [] OTHER -> table

\* the table after the call returned: TRUNCATE commits on its own, the insert
\* appends, to_sql(if_exists="replace") replaces, if_exists="append" appends
TableAfter(s, pc, table, rows) ==
    CASE pc = "load_truncate" -> {}
      [] pc = "load_insert" -> table \cup rows
      [] pc = "main_load_to_staging" -> IF s = FullLoad THEN rows ELSE table \cup rows
      [] OTHER -> table

RInit ==
    /\ r_script \in Scripts
    /\ r_pc = FirstCall(r_script)
    /\ r_trace = <<>>
    /\ r_error = NoError
    /\ r_log = <<>>
    /\ r_table \in SUBSET OldRowSet
    /\ r_rows \in SUBSET NewRowSet
    /\ r_before = r_table

RIdle ==
    /\ r_script = "none"
    /\ r_pc = "idle"
    /\ r_trace = <<>>
    /\ r_error = NoError
    /\ r_log = <<>>
    /\ r_table = {}
    /\ r_rows = {}
    /\ r_before = {}

Calling == r_pc \notin {"idle", "main_except", "exited", "crashed"}

\* the call returns
R_Return ==
    /\ Calling
    /\ r_trace' = Append(r_trace, r_pc)
    /\ r_table' = TableAfter(r_script, r_pc, r_table, r_rows)
    /\ r_pc' = NextCall(r_script, r_pc)
    /\ UNCHANGED <<r_script, r_error, r_log, r_rows, r_before>>
    /\ UNCHANGED <<jvars, tvars, ivars, emptyTruthRaises>>

\* a run that carries on with the next call after an exception
Propagate_Continue(pc) == NextCall(r_script, pc)

\* where an exception leaving the call goes: main()'s except clause, or out of
\* the interpreter when the call was made at import
Propagate(pc) == IF At(pc) = "main" THEN "main_except" ELSE "crashed"

\* the call raises
R_Raise ==
    /\ Calling
    /\ \E kind \in FailureKinds(r_script, r_pc) :
          r_error' = [call |-> kind, at |-> At(r_pc)]
    /\ r_trace' = Append(r_trace, r_pc)
    /\ r_log' = IF LogsItself(r_script, r_pc)
                THEN Append(r_log, <<"ERROR", Callee(r_script, r_pc)>>)
                ELSE r_log
    /\ r_pc' = Propagate(r_pc)
    /\ UNCHANGED <<r_script, r_table, r_rows, r_before>>
    /\ UNCHANGED <<jvars, tvars, ivars, emptyTruthRaises>>

\* except Exception as e: logging.error(f"... failed: {e}") -- main() returns
R_MainExcept ==
    /\ r_pc = "main_except"
    /\ r_log' = Append(r_log, <<"ERROR", "main">>)
    /\ r_pc' = "exited"
    /\ UNCHANGED <<r_script, r_trace, r_error, r_table, r_rows, r_before>>
    /\ UNCHANGED <<jvars, tvars, ivars, emptyTruthRaises>>

RNext == R_Return \/ R_Raise \/ R_MainExcept

(***************************************************************************)
(* The incremental load on its data  (incremental_load_tables.py)          *)
(* A customer record is [id, created_at, updated_at]; instants are the     *)
(* days 1..MaxTime of January 2024.                                        *)
(***************************************************************************)
Ids == 1..MaxIds
Times == 1..MaxTime

Instant(t) == Timestamp(2024, 1, t, 0)

CustomerRecord(id, c, u) == [id |-> id, created_at |-> c, updated_at |-> u]

\* max() of the created_at values of a non-empty table
MaxCreatedAt(table) ==
    CHOOSE t \in {r.created_at : r \in table} : \A r \in table : r.created_at <= t

\* SELECT max(created_at::timestamp) FROM stg_customers: NULL on an empty table,
\* which the function turns into None
get_last_ingestion_time(staging) ==
    IF staging = {} THEN NoneV ELSE Instant(MaxCreatedAt(staging))

\* the literal the f-string puts between the quotes of the WHERE clause
QueryLiteral(last) == PyStr(last)

\* whether the text reads as a date and time, and the instant it reads as
IsInstantText(text) == \E t \in Times : PyStr(Instant(t)) = text

InstantOfText(text) == CHOOSE t \in Times : PyStr(Instant(t)) = text

\* created_at > '<literal>' on a datetime column converts the literal and fails
\* when it is not a date and time
QueryRaises(literal, isText) == ~isText /\ ~IsInstantText(literal)

\* created_at > '<literal>' on one record. A character column is compared as
\* text: texts of instants order as the instants do, and every one of them,
\* starting with a digit, sorts before a literal starting with a letter.
CreatedAfter(rec, literal) ==
    IF IsInstantText(literal) THEN rec.created_at > InstantOfText(literal) ELSE FALSE

\* SELECT * FROM efz_customers WHERE created_at > '{last_ingested_at}'
extract_incremental_data(source, last) ==
    {rec \in source : CreatedAfter(rec, QueryLiteral(last))}

\* df.to_sql("stg_customers", if_exists="append")
load_to_staging(staging, frame) == staging \cup frame

\* what main() hands to update_last_ingestion_time
NextLastIngestedAt(frame, last) ==
    IF frame # {} THEN Instant(MaxCreatedAt(frame)) ELSE last

\* the source tables: at most one record per id, updated no earlier than created
Absent == [created_at |-> 0, updated_at |-> 0]

Versions == {[created_at |-> c, updated_at |-> u] : c \in Times, u \in Times}

SourceTables ==
    {{CustomerRecord(id, f[id].created_at, f[id].updated_at) :
            id \in {x \in Ids : f[x] # Absent}} :
        f \in [Ids -> {v \in Versions : v.created_at <= v.updated_at} \cup {Absent}]}

\* the staging tables earlier ingestions up to instant w leave behind: every
\* source record created by then, as it was when it was staged
StagingTables(source, w) ==
    {{[rec EXCEPT !.updated_at = f[rec.id]] : rec \in {x \in source : x.created_at <= w}} :
        f \in {g \in [Ids -> Times] :
                 \A rec \in source : /\ rec.created_at <= g[rec.id]
                                     /\ g[rec.id] <= rec.updated_at}}

IInit ==
    /\ i_pc = "get_last_ingestion_time"
    /\ efz_customers \in SourceTables
    /\ \E w \in 0..MaxTime : i_staging \in StagingTables(efz_customers, w)
    /\ createdAtIsText \in BOOLEAN
    /\ last_ingested_at = NoneV
    /\ i_df = {}
    /\ ingestion_log = NoneV
    /\ i_failed = "none"

\* the incremental load is not running on its data
IIdle ==
    /\ i_pc = "idle"
    /\ efz_customers = {}
    /\ i_staging = {}
    /\ createdAtIsText = FALSE
    /\ last_ingested_at = NoneV
    /\ i_df = {}
    /\ ingestion_log = NoneV
    /\ i_failed = "none"

\* last_ingested_at = get_last_ingestion_time()
I_GetLastIngestionTime ==
    /\ i_pc = "get_last_ingestion_time"
    /\ last_ingested_at' = get_last_ingestion_time(i_staging)
    /\ i_pc' = "extract_incremental_data"
    /\ UNCHANGED <<efz_customers, i_staging, createdAtIsText, i_df, ingestion_log, i_failed>>
    /\ UNCHANGED <<jvars, tvars, rvars, emptyTruthRaises>>

\* df = extract_incremental_data(last_ingested_at); over an empty table the
\* server may answer without ever converting the literal
I_Extract ==
    /\ i_pc = "extract_incremental_data"
    /\ \/ ~QueryRaises(QueryLiteral(last_ingested_at), createdAtIsText)
       \/ efz_customers = {}
    /\ i_df' = extract_incremental_data(efz_customers, last_ingested_at)
    /\ i_pc' = "load_to_staging"
    /\ UNCHANGED <<efz_customers, i_staging, createdAtIsText, last_ingested_at,
                   ingestion_log, i_failed>>
    /\ UNCHANGED <<jvars, tvars, rvars, emptyTruthRaises>>

\* the query fails: extract_incremental_data logs and re-raises, main() logs
\* "Incremental data transfer failed" and returns
I_ExtractRaise ==
    /\ i_pc = "extract_incremental_data"
    /\ QueryRaises(QueryLiteral(last_ingested_at), createdAtIsText)
    /\ i_failed' = "extract_incremental_data"
    /\ i_pc' = "done"
    /\ UNCHANGED <<efz_customers, i_staging, createdAtIsText, last_ingested_at,
                   i_df, ingestion_log>>
    /\ UNCHANGED <<jvars, tvars, rvars, emptyTruthRaises>>

\* load_to_staging(df)
I_LoadToStaging ==
    /\ i_pc = "load_to_staging"
    /\ i_staging' = load_to_staging(i_staging, i_df)
    /\ i_pc' = "update_last_ingestion_time"
    /\ UNCHANGED <<efz_customers, createdAtIsText, last_ingested_at, i_df,
                   ingestion_log, i_failed>>
    /\ UNCHANGED <<jvars, tvars, rvars, emptyTruthRaises>>

\* update_last_ingestion_time(df['created_at'].max() or the old value)
I_UpdateLastIngestionTime ==
    /\ i_pc = "update_last_ingestion_time"
    /\ ingestion_log' = NextLastIngestedAt(i_df, last_ingested_at)
    /\ i_pc' = "done"
    /\ UNCHANGED <<efz_customers, i_staging, createdAtIsText, last_ingested_at,
                   i_df, i_failed>>
    /\ UNCHANGED <<jvars, tvars, rvars, emptyTruthRaises>>

INext ==
    \/ I_GetLastIngestionTime
    \/ I_Extract
    \/ I_ExtractRaise
    \/ I_LoadToStaging
    \/ I_UpdateLastIngestionTime

(***************************************************************************)
(* Specifications                                                          *)
(***************************************************************************)
Init ==
    /\ emptyTruthRaises \in BOOLEAN
    /\ \/ JInit /\ TIdle /\ RIdle /\ IIdle
       \/ JIdle /\ TInit /\ RIdle /\ IIdle
       \/ JIdle /\ TIdle /\ RInit /\ IIdle
       \/ JIdle /\ TIdle /\ RIdle /\ IInit

Next == JNext \/ TNext \/ RNext \/ INext

Spec == Init /\ [][Next]_vars

\* build_json alone, over records, field lists and defaults
InitJson == JInit /\ TIdle /\ RIdle /\ IIdle /\ emptyTruthRaises \in BOOLEAN

SpecJson == InitJson /\ [][JNext]_vars

\* build_json alone on a build whose numpy takes an empty array as False
InitJsonLenient == JInit /\ TIdle /\ RIdle /\ IIdle /\ emptyTruthRaises = FALSE

SpecJsonLenient == InitJsonLenient /\ [][JNext]_vars

\* transform_data over mapping documents and tables
InitTransform == JIdle /\ TInit /\ RIdle /\ IIdle /\ emptyTruthRaises \in BOOLEAN

SpecTransform == InitTransform /\ [][TNext]_vars

\* the runs of the four scripts, every call of which may raise
InitRun == JIdle /\ TIdle /\ RInit /\ IIdle /\ emptyTruthRaises = FALSE

SpecRun == InitRun /\ [][RNext]_vars

\* the incremental load over source and staging tables
InitIncremental == JIdle /\ TIdle /\ RIdle /\ IInit /\ emptyTruthRaises = FALSE

SpecIncremental == InitIncremental /\ [][INext]_vars

(***************************************************************************)
(* Properties of build_json                                                *)
(***************************************************************************)
RowLabelSeq(row) == [i \in 1..Len(row) |-> row[i][1]]

\* the value a listed field resolves to: the record's, else the default
Resolved(field) == RowGet(j_row, field, DefaultsGet(j_defaults, field))

\* C2 as stated: the returned document has exactly N = Len(json_fields) keys,
\* in the order of the field list.
C2_KeysAreFieldList ==
    j_pc = "returned" =>
        /\ Len(j_result.doc) = Len(j_fields)
        /\ DocKeys(j_result.doc) = j_fields

\* C2 amended: the keys of the returned document are the names of the field
\* list in order of first occurrence, whatever the column order of the record;
\* for a field list without repeated names that is exactly N keys in list order.
C2_KeysAreDistinctFieldsInOrder ==
    j_pc = "returned" =>
        /\ DocKeys(j_result.doc) = Dedup(j_fields)
        /\ NoDup(j_fields) => /\ Len(j_result.doc) = Len(j_fields)
                               /\ DocKeys(j_result.doc) = j_fields

\* a two-name field list built against a record whose columns are in the
\* opposite order
C2_Witness ==
    /\ j_pc = "returned"
    /\ j_fields = <<"customerName", "dateOfBirth">>
    /\ RowLabelSeq(j_row) = <<"dateOfBirth", "customerName">>
    /\ Len(j_result.doc) = 2

\* C4: no value of a returned document is None, NaN or NaT, and a listed field
\* whose resolved value is null holds the empty string.
C4_NoNullInDocument ==
    j_pc = "returned" =>
        /\ \A i \in 1..Len(j_result.doc) : ~IsNullScalar(j_result.doc[i][2])
        /\ \A f \in Range(j_fields) :
              IsNullScalar(Resolved(f)) => DocGet(j_result.doc, f) = EmptyStr

\* a document was returned for a record holding NaT in one listed field and
\* lacking another whose default is NaN
C4_Witness ==
    /\ j_pc = "returned"
    /\ \E f \in Range(j_fields) :
          /\ f \in RowLabels(j_row)
          /\ Resolved(f) = NaT
          /\ DocGet(j_result.doc, f) = EmptyStr
    /\ \E f \in Range(j_fields) :
          /\ f \notin RowLabels(j_row)
          /\ Resolved(f) = NaN
          /\ DocGet(j_result.doc, f) = EmptyStr

\* C8 as stated: build_json never raises, whatever the listed fields hold
\* (refuted already where the truth value of an empty array is no error).
C8_BuildJsonTotal == j_pc # "raised"

\* a timestamp, a date, or the raw date text
IsTemporal(v) == v.k \in {"Timestamp", "date", "datetime"} \/ v = Str(RawDateText)

\* the calendar date of a temporal value, as YYYY-MM-DD
DateText(v) == IF v.k = "str" THEN "2024-03-05" ELSE IsoDate(v)

\* C9 as stated: a listed field whose resolved value is temporal is stored as
\* its date in YYYY-MM-DD form.
C9_TemporalAsIsoDate ==
    j_pc = "returned" =>
        \A f \in Range(j_fields) :
            IsTemporal(Resolved(f)) => DocGet(j_result.doc, f) = Str(DateText(Resolved(f)))
(***************************************************************************)
(* Properties of transform_data                                            *)
(***************************************************************************)
Cell(frame, r, column) == frame.rows[r][FirstPos(frame.cols, column)]

\* the columns of the joined frame, before any renaming
MergedCols == MergeLeft(stg_customers, customer_uuids, "customer_code").cols

\* the columns present once the mapping has renamed them
RenamedCols(field_map) == ColSet(Rename(Frame(MergedCols, <<>>, <<>>), field_map))

RecordKeys(frame, r) == RowLabels(RowSeries(frame, r))

\* C1: after the projection and before the JSON column is added, the key set of
\* every record is exactly rename.values() union defaults.keys().
C1_ProjectedKeySet ==
    /\ (script = Profile /\ t_pc = "json") =>
          /\ \A r \in 1..NRows(df_ind) :
                RecordKeys(df_ind, r) = DictValues(mapping.ind_map) \cup DOMAIN mapping.ind_defaults
          /\ \A r \in 1..NRows(df_corp) :
                RecordKeys(df_corp, r) = DictValues(mapping.corp_map) \cup DOMAIN mapping.corp_defaults
    /\ (script = Unified /\ t_pc = "normalize") =>
          \A r \in 1..NRows(df_all) :
                RecordKeys(df_all, r) = DictValues(mapping.field_map) \cup DOMAIN mapping.default_values

\* a projected individual record that lost its discriminator and join key, took
\* a renamed column and was given a column the batch did not have
C1_Witness ==
    /\ script = Profile
    /\ t_pc = "json"
    /\ NRows(df_ind) > 0
    /\ {"customer_type", "customer_code"} \subseteq ColSet(df)
    /\ "customerName" \in ColSet(df_ind)
    /\ "cust_name" \in ColSet(df)
    /\ "branchCode" \in ColSet(df_ind)

\* the default a sheet declares for a destination field, the empty string when
\* it declares none (no row for the field, or an empty `Default Value` cell)
DeclaredDefault(sheet, field) ==
    LET at == SelectSeq(sheet, LAMBDA r : r.dst = field)
    IN IF at = <<>> \/ IsNullScalar(at[Len(at)].def) THEN EmptyStr ELSE at[Len(at)].def

FilledAsDeclared(frame, sheet, field_map, default_values) ==
    \A c \in RequiredColumns(field_map, default_values) :
        c \notin RenamedCols(field_map) =>
            \A r \in 1..NRows(frame) : Cell(frame, r, c) = DeclaredDefault(sheet, c)

\* C3 as stated: a required field absent after rename holds, in every record,
\* the default the mapping document declares, and "" when it declares none.
C3_AbsentFieldGetsDeclaredDefault ==
    t_pc = "project" =>
        IF script = Profile
        THEN /\ FilledAsDeclared(df_ind, sheets.ind, mapping.ind_map, mapping.ind_defaults)
             /\ FilledAsDeclared(df_corp, sheets.corp, mapping.corp_map, mapping.corp_defaults)
        ELSE FilledAsDeclared(df_all, sheets.all, mapping.field_map, mapping.default_values)

TypeOf(frame, r) == Cell(frame, r, "customer_type")

InPartition(frame, r, part) == frame.index[r] \in Range(part.index)

Split == script = Profile /\ t_pc \notin {"load_mapping", "merge", "split"}

\* C5: an Individual record is in the Individual partition only, an SME record
\* in the Corporate partition only, any other record in neither, and the output
\* has one row per Individual or SME record and no other.
C5_PartitionByCustomerType ==
    Split =>
        /\ \A r \in 1..NRows(df) :
              /\ InPartition(df, r, df_ind) <=> TypeOf(df, r) = Str("Individual")
              /\ InPartition(df, r, df_corp) <=> TypeOf(df, r) = Str("SME")
        /\ NoDup(df_ind.index \o df_corp.index)
        /\ Range(df_ind.index) \cup Range(df_corp.index) \subseteq Range(df.index)
        /\ t_pc = "rename" =>
              /\ \A k \in 1..NRows(df_ind) : df_ind.rows[k] = df.rows[df_ind.index[k] + 1]
              /\ \A k \in 1..NRows(df_corp) : df_corp.rows[k] = df.rows[df_corp.index[k] + 1]
        /\ t_pc = "done" =>
              NRows(df_final) =
                  Cardinality({r \in 1..NRows(df) :
                                  TypeOf(df, r) \in {Str("Individual"), Str("SME")}})

\* a finished run whose joined records hold an SME and a record of another type
C5_Witness ==
    /\ script = Profile
    /\ t_pc = "done"
    /\ \E r \in 1..NRows(df) : TypeOf(df, r) = Str("SME")
    /\ \E r \in 1..NRows(df) : TypeOf(df, r) \notin {Str("Individual"), Str("SME")}
    /\ NRows(df_final) = 1

Increasing(s) == \A i, j \in 1..Len(s) : i < j => s[i] < s[j]

\* C6: the consolidated frame is the Individual records in their order, then
\* the Corporate records in theirs, indexed 0..n-1.
C6_IndividualThenCorporate ==
    (script = Profile /\ t_pc \in {"normalize", "done"}) =>
        LET ni == NRows(df_ind)
            nc == NRows(df_corp)
        IN /\ NRows(df_final) = ni + nc
           /\ df_final.index = RangeIndex(ni + nc)
           /\ Increasing(df_ind.index)
           /\ Increasing(df_corp.index)
           /\ t_pc = "normalize" =>
                 /\ \A k \in 1..ni : \A c \in ColSet(df_ind) :
                       Cell(df_final, k, c) = Cell(df_ind, k, c)
                 /\ \A k \in 1..nc : \A c \in ColSet(df_corp) :
                       Cell(df_final, ni + k, c) = Cell(df_corp, k, c)

\* two Individual records and a Corporate one were consolidated
C6_Witness ==
    /\ script = Profile
    /\ t_pc = "done"
    /\ NRows(df_ind) = 2
    /\ NRows(df_corp) = 1
    /\ df_final.index = <<0, 1, 2>>

UuidCodes == [r \in 1..NRows(customer_uuids) |-> Cell(customer_uuids, r, "customer_code")]

\* C7 as stated: the output has at most as many rows as stg_customers.
C7_OutputAtMostStaging ==
    (script = Profile /\ t_pc = "done") => NRows(df_final) <= NRows(stg_customers)

\* C7 amended: the output has at most as many rows as the left join of
\* stg_customers with customer_uuids, hence at most as many as stg_customers
\* whenever no customer_code occurs twice in customer_uuids.
C7_OutputAtMostJoined ==
    (script = Profile /\ t_pc = "done") =>
        /\ NRows(df_final) <= NRows(df)
        /\ NoDup(UuidCodes) => NRows(df_final) <= NRows(stg_customers)

\* a finished run over two staging records, one of them dropped, and a uuid
\* table without repeated codes
C7_Witness ==
    /\ script = Profile
    /\ t_pc = "done"
    /\ NRows(stg_customers) = 2
    /\ NRows(customer_uuids) = 2
    /\ NoDup(UuidCodes)
    /\ NRows(df_final) = 1
(***************************************************************************)
(* Properties of a run                                                     *)
(***************************************************************************)
Ended == r_pc \in {"exited", "crashed"}

Logged == \E i \in 1..Len(r_log) : r_log[i][1] = "ERROR"

ObservedByMain == \E i \in 1..Len(r_log) : r_log[i] = <<"ERROR", "main">>

\* C10 as stated: in every script, an error raised while loading the mapping or
\* extracting data ends the run at once, is written to the log and reaches
\* main(), which observes it.
C10_ExtractAndMappingErrorsLoggedAndObserved ==
    (r_error.call \in {"extract", "load_mapping"}) =>
        /\ r_pc \in {"main_except", "exited", "crashed"}
        /\ Ended => /\ Logged
                    /\ ObservedByMain

LastCall == IF r_trace = <<>> THEN "none" ELSE r_trace[Len(r_trace)]

WritingCalls == {"load_truncate", "load_insert", "main_load_to_staging"}

FailedBeforeLoad == r_error.call \in {"extract", "load_mapping", "transform"}

\* C11: a run that failed while extracting, loading the mapping or transforming
\* made no call after the one that failed, neither truncated nor wrote its
\* table, and left the table with the rows it had before the run.
C11_FailedRunLeavesTableUntouched ==
    FailedBeforeLoad =>
        /\ r_pc \in {"main_except", "exited", "crashed"}
        /\ LastCall \in {"import_extract", "import_load_mapping", "import_transform",
                         "main_extract", "main_transform"}
        /\ Range(r_trace) \cap WritingCalls = {}
        /\ r_table = r_before

C11_Witness ==
    /\ r_script = Unified
    /\ r_error = [call |-> "load_mapping", at |-> "main"]
    /\ r_pc = "exited"
    /\ r_before = OldRowSet
    /\ r_rows # {}

InsertFailed == r_error.call = "load" /\ LastCall = "load_insert"

LoggedBy(function) == \E i \in 1..Len(r_log) : r_log[i] = <<"ERROR", function>>

\* C13: the TRUNCATE of load_data is committed before the bulk insert starts;
\* when the insert then fails the table stays empty, load_data logs the error
\* and the exception reaches main().
C13_TruncateCommittedBeforeInsert ==
    /\ r_pc = "load_insert" => r_table = {}
    /\ InsertFailed =>
          /\ r_table = {}
          /\ LoggedBy("load_data")
          /\ r_pc \in {"main_except", "exited"}
          /\ r_pc = "exited" => ObservedByMain

C13_Witness ==
    /\ InsertFailed
    /\ r_pc = "exited"
    /\ r_before = OldRowSet
    /\ r_rows # {}
    /\ r_table = {}

(***************************************************************************)
(* Properties of the incremental load                                      *)
(***************************************************************************)
Staged == i_pc \in {"update_last_ingestion_time", "done"} /\ i_failed = "none"

\* created or updated after the previous run's watermark
ChangedSince(rec, last) ==
    last.k = "Timestamp" => \/ rec.created_at > last.d
                            \/ rec.updated_at > last.d

\* C12 as stated: once extract_incremental_data and load_to_staging have
\* completed, every source record created or updated after the watermark of
\* the previous run is in the staging table.
C12_ChangedRecordsStaged ==
    (Staged /\ last_ingested_at.k = "Timestamp") =>
        \A rec \in efz_customers :
            ChangedSince(rec, last_ingested_at) => rec \in i_staging

\* C14 as stated: when get_last_ingestion_time returned None, the run extracts
\* every record of the source table and appends it to staging (stated for a
\* source table that holds records).
C14_FullExtractionWithoutWatermark ==
    (i_pc = "done" /\ last_ingested_at = NoneV /\ efz_customers # {}) =>
        /\ i_failed = "none"
        /\ i_df = efz_customers
        /\ efz_customers \subseteq i_staging
====
